---- MODULE Spec2Model ----
(***************************************************************************)
(* A model of backend/app.py, the Flask backend of the NRTR resources API. *)
(* Line 15 of the file, "POST /api/login", is stray text and no Python      *)
(* statement; the model is of the module without it.                       *)
(*                                                                         *)
(* Two specifications are given over the same variables:                   *)
(*   Spec     the module's functions (apply_filters, tally) and the view   *)
(*            functions defined in create_app, each applied to arguments   *)
(*            drawn from bounded sets, over datasets drawn from bounded    *)
(*            pools of records;                                            *)
(*   SpecApp  the process: create_app executed statement by statement,     *)
(*            then requests dispatched on the application object that      *)
(*            create_app returned.                                         *)
(*                                                                         *)
(* Python values are tagged records: a str is a sequence of one-character  *)
(* strings, so that lower(), str(), join and `in` are computed.            *)
(***************************************************************************)
EXTENDS Integers, Sequences, FiniteSets, TLC

VARIABLES RESOURCES, OPPORTUNITIES, pc, app, routes, served, call, result

vars == <<RESOURCES, OPPORTUNITIES, pc, app, routes, served, call, result>>

(***************************************************************************)
(* Bounds                                                                  *)
(***************************************************************************)
\* the two datasets together hold at most this many records
MaxRecords == 2

(***************************************************************************)
(* Python values                                                           *)
(***************************************************************************)
None == [t |-> "none"]
Str(s) == [t |-> "str", s |-> s]
Num(n) == [t |-> "int", n |-> n]
\* a JSON array: a Python list, which is unhashable and has no .get
List == [t |-> "list"]

\* Python ==, on the values modelled
PyEq(a, b) ==
    /\ a.t = b.t
    /\ a.t = "str" => a.s = b.s
    /\ a.t = "int" => a.n = b.n

\* Python truthiness: None, "", 0 are falsy
Truthy(v) ==
    CASE v.t = "none" -> FALSE
      [] v.t = "str" -> v.s # <<>>
      [] v.t = "int" -> v.n # 0
      [] OTHER -> TRUE

UpperToLower ==
    [A |-> "a", B |-> "b", C |-> "c", D |-> "d", E |-> "e", F |-> "f", G |-> "g",
     H |-> "h", I |-> "i", J |-> "j", K |-> "k", L |-> "l", M |-> "m", N |-> "n",
     O |-> "o", P |-> "p", Q |-> "q", R |-> "r", S |-> "s", T |-> "t", U |-> "u",
     V |-> "v", W |-> "w", X |-> "x", Y |-> "y", Z |-> "z"]

\* str.lower() on a sequence of characters
lower(s) ==
    [i \in 1..Len(s) |-> IF s[i] \in DOMAIN UpperToLower THEN UpperToLower[s[i]] ELSE s[i]]

Digits == <<"0", "1", "2", "3", "4", "5", "6", "7", "8", "9">>

RECURSIVE NatToStr(_)
NatToStr(n) ==
    IF n < 10 THEN <<Digits[n + 1]>> ELSE NatToStr(n \div 10) \o <<Digits[(n % 10) + 1]>>

\* str(value)
str(v) ==
    CASE v.t = "str" -> v.s
      [] v.t = "int" -> IF v.n < 0 THEN <<"-">> \o NatToStr(-v.n) ELSE NatToStr(v.n)
      [] v.t = "none" -> <<"N", "o", "n", "e">>
      [] OTHER -> <<"[", "]">>

\* sep.join(parts)
RECURSIVE join(_, _)
join(sep, parts) ==
    IF parts = <<>> THEN <<>>
    ELSE IF Len(parts) = 1 THEN parts[1]
    ELSE parts[1] \o sep \o join(sep, Tail(parts))

\* `q in h` on strings
contains(h, q) ==
    \E i \in 0..(Len(h) - Len(q)) : SubSeq(h, i + 1, i + Len(q)) = q

\* item.get(field) and item.get(field, default)
get(item, field) == IF field \in DOMAIN item THEN item[field] ELSE None
getd(item, field, default) == IF field \in DOMAIN item THEN item[field] ELSE default

(***************************************************************************)
(* normalize and apply_filters                                             *)
(***************************************************************************)
normalize_cased(value) == value

normalize(value) == IF value.t = "str" THEN Str(lower(value.s)) ELSE value

cleaned_filters_keep_empty(exact_filters) ==
    [k \in {f \in DOMAIN exact_filters : exact_filters[f] # None} |-> exact_filters[k]]

\* {k: v for k, v in exact_filters.items() if v}
cleaned_filters(exact_filters) ==
    [k \in {f \in DOMAIN exact_filters : Truthy(exact_filters[f])} |-> exact_filters[k]]

\* q = search_query.lower() if search_query else None
lowered_query(search_query) ==
    IF Truthy(search_query) THEN Str(lower(search_query.s)) ELSE None

haystack_unseparated(item, search_fields) ==
    join(<<>>, [i \in 1..Len(search_fields) |-> str(getd(item, search_fields[i], Str(<<>>)))])

\* " ".join(str(item.get(field, "")) for field in search_fields)
haystack(item, search_fields) ==
    join(<<" ">>, [i \in 1..Len(search_fields) |-> str(getd(item, search_fields[i], Str(<<>>)))])

matches(item, cleaned, q, search_fields) ==
    /\ \A field \in DOMAIN cleaned :
          LET value == get(item, field)
          IN  ~(value = None \/ ~PyEq(normalize(value), normalize(cleaned[field])))
    /\ Truthy(q) => contains(lower(haystack(item, search_fields)), q.s)

\* [item for item in items if matches(item)]
RECURSIVE comprehension(_, _, _, _)
comprehension(items, cleaned, q, search_fields) ==
    IF items = <<>> THEN <<>>
    ELSE (IF matches(Head(items), cleaned, q, search_fields) THEN <<Head(items)>> ELSE <<>>)
         \o comprehension(Tail(items), cleaned, q, search_fields)

RECURSIVE reversed(_)
reversed(s) == IF s = <<>> THEN <<>> ELSE reversed(Tail(s)) \o <<Head(s)>>

apply_filters_prepending(items, exact_filters, search_query, search_fields) ==
    reversed(comprehension(items, cleaned_filters(exact_filters),
                           lowered_query(search_query), search_fields))

apply_filters_skip_first(items, exact_filters, search_query, search_fields) ==
    IF items = <<>> THEN <<>>
    ELSE comprehension(Tail(items), cleaned_filters(exact_filters),
                       lowered_query(search_query), search_fields)

apply_filters(items, exact_filters, search_query, search_fields) ==
    comprehension(items, cleaned_filters(exact_filters),
                  lowered_query(search_query), search_fields)


(***************************************************************************)
(* The list, lookup and aggregate view functions of create_app             *)
(***************************************************************************)
RECURSIVE DigitsValue(_)
DigitsValue(s) ==
    IF s = <<>> THEN 0
    ELSE 10 * DigitsValue(SubSeq(s, 1, Len(s) - 1))
         + (CHOOSE d \in 0..9 : Digits[d + 1] = s[Len(s)])

IsDigits(s) == s # <<>> /\ \A i \in 1..Len(s) : \E d \in 1..10 : Digits[d] = s[i]

\* request.args.get(name): the parameter's string, None when it is not supplied
args_get(args, name) == get(args, name)

\* request.args.get(name, type=int): int(text), None when the parameter is not
\* supplied or int() raises ValueError (signed decimal digits are what is modelled)
args_get_int(args, name) ==
    LET raw == get(args, name)
    IN  IF raw.t # "str" THEN None
        ELSE IF IsDigits(raw.s) THEN Num(DigitsValue(raw.s))
        ELSE IF raw.s # <<>> /\ Head(raw.s) = "-" /\ IsDigits(Tail(raw.s))
             THEN Num(-DigitsValue(Tail(raw.s)))
        ELSE IF raw.s # <<>> /\ Head(raw.s) = "+" /\ IsDigits(Tail(raw.s))
             THEN Num(DigitsValue(Tail(raw.s)))
        ELSE None

Max(a, b) == IF a >= b THEN a ELSE b
Min(a, b) == IF a <= b THEN a ELSE b

\* seq[:k] for k >= 0
slice_to(seq, k) == SubSeq(seq, 1, Min(k, Len(seq)))

limit_results_if_given(filtered, limit) ==
    IF limit # None THEN slice_to(filtered, Max(limit.n, 0)) ELSE filtered

\* if limit: filtered = filtered[: max(limit, 0)]
limit_results(filtered, limit) ==
    IF Truthy(limit) THEN slice_to(filtered, Max(limit.n, 0)) ELSE filtered

\* jsonify(payload) with the default status, and (jsonify(payload), status)
jsonify(payload, status) == [status |-> status, json |-> payload]

ResourceSearchFields == <<"name", "description", "county", "type">>
OpportunitySearchFields == <<"title", "description", "county", "category">>

health ==
    jsonify([status |-> "ok", resources |-> Len(RESOURCES),
             opportunities |-> Len(OPPORTUNITIES)], 200)

list_resources(args) ==
    LET county == args_get(args, "county")
        resource_type == args_get(args, "type")
        query == args_get(args, "q")
        limit == args_get_int(args, "limit")
        filtered == limit_results(
            apply_filters(RESOURCES, [county |-> county, type |-> resource_type],
                          query, ResourceSearchFields),
            limit)
    IN  jsonify([count |-> Len(filtered), results |-> filtered], 200)

list_opportunities(args) ==
    LET county == args_get(args, "county")
        category == args_get(args, "category")
        query == args_get(args, "q")
        limit == args_get_int(args, "limit")
        filtered == limit_results(
            apply_filters(OPPORTUNITIES, [county |-> county, category |-> category],
                          query, OpportunitySearchFields),
            limit)
    IN  jsonify([count |-> Len(filtered), results |-> filtered], 200)

\* [r for r in dataset if r.get("id") == wanted]
id_matches(dataset, wanted) ==
    SelectSeq(dataset, LAMBDA r : PyEq(get(r, "id"), wanted))

lookup_last(dataset, wanted, message) ==
    LET found == id_matches(dataset, wanted)
    IN  IF found = <<>> THEN jsonify([error |-> message], 404)
        ELSE jsonify(found[Len(found)], 200)

\* matches = [...]; if not matches: 404; return jsonify(matches[0])
lookup(dataset, wanted, message) ==
    LET found == id_matches(dataset, wanted)
    IN  IF found = <<>> THEN jsonify([error |-> message], 404)
        ELSE jsonify(found[1], 200)

get_resource(resource_id) == lookup(RESOURCES, resource_id, "Resource not found")

get_opportunity(opportunity_id) ==
    lookup(OPPORTUNITIES, opportunity_id, "Opportunity not found")

\* the characters used, in code point order (the order sorted() compares str by)
Ascii ==
    <<" ", "-", ".", "0", "1", "2", "3", "4", "5", "6", "7", "8", "9", "@",
      "A", "B", "C", "D", "E", "F", "G", "H", "I", "J", "K", "L", "M", "N", "O", "P",
      "Q", "R", "S", "T", "U", "V", "W", "X", "Y", "Z", "[", "]",
      "a", "b", "c", "d", "e", "f", "g", "h", "i", "j", "k", "l", "m", "n", "o", "p",
      "q", "r", "s", "t", "u", "v", "w", "x", "y", "z">>

ord(c) == CHOOSE i \in 1..Len(Ascii) : Ascii[i] = c

\* a < b on str
RECURSIVE str_less(_, _)
str_less(a, b) ==
    IF b = <<>> THEN FALSE
    ELSE IF a = <<>> THEN TRUE
    ELSE IF Head(a) = Head(b) THEN str_less(Tail(a), Tail(b))
    ELSE ord(Head(a)) < ord(Head(b))

\* a < b on the values modelled (called only when both are str or both are int)
less(a, b) == IF a.t = "str" THEN str_less(a.s, b.s) ELSE a.n < b.n

\* sorted(values), for values that sorted() can compare
RECURSIVE sorted(_)
sorted(values) ==
    IF values = {} THEN <<>>
    ELSE LET least == CHOOSE v \in values : \A w \in values \ {v} : less(v, w)
         IN  <<least>> \o sorted(values \ {least})

\* {r.get("county") for r in RESOURCES if r.get("county")}
county_set ==
    {get(RESOURCES[i], "county") : i \in {j \in 1..Len(RESOURCES) :
                                           Truthy(get(RESOURCES[j], "county"))}}

\* sorted() raises TypeError when a str meets an int: Flask answers 500
list_counties ==
    IF \E v, w \in county_set : v.t # w.t
    THEN jsonify([error |-> "Internal Server Error"], 500)
    ELSE jsonify([counties |-> sorted(county_set)], 200)

tally_step_keep_falsy(counts, k) ==
    IF k = None THEN counts
    ELSE IF k \in DOMAIN counts THEN [counts EXCEPT ![k] = @ + 1]
    ELSE counts @@ (k :> 1)

\* one iteration of tally's loop: skip a falsy k, else counts[k] = counts.get(k, 0) + 1
tally_step(counts, k) ==
    IF ~Truthy(k) THEN counts
    ELSE IF k \in DOMAIN counts THEN [counts EXCEPT ![k] = @ + 1]
    ELSE counts @@ (k :> 1)

RECURSIVE tally_loop(_, _, _)
tally_loop(items, key, counts) ==
    IF items = <<>> THEN counts
    ELSE tally_loop(Tail(items), key, tally_step(counts, get(Head(items), key)))

tally(items, key) == tally_loop(items, key, <<>>)

stats ==
    jsonify([resources_by_county |-> tally(RESOURCES, "county"),
             resources_by_type |-> tally(RESOURCES, "type"),
             opportunities_by_county |-> tally(OPPORTUNITIES, "county"),
             opportunities_by_category |-> tally(OPPORTUNITIES, "category")], 200)


(***************************************************************************)
(* The data files' contents: bounded pools of records                      *)
(***************************************************************************)
ResourcePool ==
    { [id |-> Str(<<"r", "1">>), name |-> Str(<<"P", "a", "n", "t", "r", "y">>),
       description |-> Str(<<"h", "o", "t", " ", "f", "o", "o", "d">>),
       county |-> Str(<<"L", "a", "k", "e">>), type |-> Str(<<"F", "o", "o", "d">>)],
      [id |-> Str(<<"r", "2">>), name |-> Str(<<"H", "a", "v", "e", "n">>),
       county |-> Str(<<"L", "A", "K", "E">>),
       type |-> Str(<<"S", "h", "e", "l", "t", "e", "r">>)],
      [id |-> Str(<<"a", " ", "b">>), name |-> Str(<<"a">>), description |-> Str(<<"b">>),
       county |-> Str(<<"C", "o", "o", "k">>), type |-> Str(<<"f", "o", "o", "d">>)],
      [id |-> Num(7), name |-> Str(<<"r", "2">>), description |-> None,
       county |-> None, type |-> Str(<<>>)],
      [id |-> Str(<<"r", "1">>), name |-> Str(<<"A", "n", "n", "e", "x">>),
       county |-> Num(5), type |-> Str(<<"F", "O", "O", "D">>)],
      [id |-> Str(<<"r", "3">>), county |-> Str(<<"l", "a", "k", "e">>)] }

OpportunityPool ==
    { [id |-> Str(<<"s", "1">>), title |-> Str(<<"G", "r", "a", "n", "t">>),
       description |-> Str(<<"s", "t", "e", "m">>),
       county |-> Str(<<"L", "a", "k", "e">>), category |-> Str(<<"S", "T", "E", "M">>)],
      [id |-> Str(<<"s", "1">>), title |-> Str(<<"A", "w", "a", "r", "d">>),
       county |-> Str(<<"C", "o", "o", "k">>), category |-> Str(<<"A", "r", "t", "s">>)],
      [id |-> Str(<<"s", "2">>), title |-> Str(<<"s", "t", "e", "m">>),
       category |-> None] }

SeqsUpTo(pool, n) == UNION {[1..k -> pool] : k \in 0..n}

\* what json.load can return for the two data files
FileContents ==
    {d \in SeqsUpTo(ResourcePool, MaxRecords) \X SeqsUpTo(OpportunityPool, MaxRecords) :
        Len(d[1]) + Len(d[2]) <= MaxRecords}

(***************************************************************************)
(* Arguments the functions are applied to                                  *)
(***************************************************************************)
\* partial functions from the keys to the values
PartialMaps(keys, values) == UNION {[ks -> values] : ks \in SUBSET keys}

CountyValues == {Str(<<>>), Str(<<"l", "a", "k", "e">>), Str(<<"5">>)}
TypeValues == {Str(<<>>), Str(<<"F", "O", "O", "D">>)}
CategoryValues == {Str(<<>>), Str(<<"s", "t", "e", "m">>)}
QueryValues ==
    {Str(<<>>), Str(<<"F", "O", "O", "D">>), Str(<<"a", " ", "b">>), Str(<<"r", "1">>),
     Str(<<"n", "o", "n", "e">>)}
ListQueryValues == {Str(<<"a", " ", "b">>), Str(<<"s", "t", "e", "m">>)}
LimitValues ==
    {Str(<<"-", "1">>), Str(<<"0">>), Str(<<"1">>), Str(<<"2">>), Str(<<"x">>)}
IdValues == {Str(<<"r", "1">>), Str(<<"r", "2">>), Str(<<"7">>), Str(<<"s", "1">>)}

\* exact_filters of a direct call: each key omitted, None or a string
ExactFilterChoices ==
    {f \in PartialMaps({"county", "type"}, CountyValues \cup TypeValues \cup {None}) :
        /\ "county" \in DOMAIN f => f["county"] \in CountyValues \cup {None}
        /\ "type" \in DOMAIN f => f["type"] \in TypeValues \cup {None}}

SearchFieldChoices == {ResourceSearchFields, <<"name">>, <<>>}

\* the query string of a list request: each parameter supplied or not
ListArgs(second, secondValues) ==
    {a \in PartialMaps({"county", second, "q", "limit"},
                       CountyValues \cup secondValues \cup ListQueryValues \cup LimitValues) :
        /\ "county" \in DOMAIN a => a["county"] \in {Str(<<>>), Str(<<"l", "a", "k", "e">>)}
        /\ second \in DOMAIN a => a[second] \in secondValues \ {Str(<<>>)}
        /\ "q" \in DOMAIN a => a["q"] \in ListQueryValues
        /\ "limit" \in DOMAIN a => a["limit"] \in LimitValues}

Dataset(name) == IF name = "RESOURCES" THEN RESOURCES ELSE OPPORTUNITIES

FunctionCalls ==
    {[fn |-> "apply_filters", items |-> "RESOURCES", exact_filters |-> f,
      search_query |-> q, search_fields |-> sf] :
        f \in ExactFilterChoices, q \in QueryValues \cup {None}, sf \in SearchFieldChoices}
    \cup {[fn |-> "tally", items |-> n, key |-> k] :
            n \in {"RESOURCES", "OPPORTUNITIES"}, k \in {"county", "type", "category"}}
    \cup {[fn |-> "list_resources", args |-> a] : a \in ListArgs("type", TypeValues)}
    \cup {[fn |-> "list_opportunities", args |-> a] :
            a \in ListArgs("category", CategoryValues)}
    \cup {[fn |-> "get_resource", resource_id |-> i] : i \in IdValues}
    \cup {[fn |-> "get_opportunity", opportunity_id |-> i] : i \in IdValues}
    \cup {[fn |-> f] : f \in {"health", "list_counties", "stats"}}

NoCall == [fn |-> "none"]
Pending == [done |-> FALSE]
Returned(value) == [done |-> TRUE, value |-> value]

(***************************************************************************)
(* Spec: the functions applied to arguments                                *)
(***************************************************************************)
Init ==
    /\ \E d \in FileContents : RESOURCES = d[1] /\ OPPORTUNITIES = d[2]
    /\ pc = 0
    /\ app = 0
    /\ routes = <<>>
    /\ served = 0
    /\ call = NoCall
    /\ result = Pending

Invoke ==
    /\ pc = 0
    /\ call = NoCall
    /\ \E c \in FunctionCalls : call' = c
    /\ result' = Pending
    /\ UNCHANGED <<RESOURCES, OPPORTUNITIES, pc, app, routes, served>>

Executes(fn, value) ==
    /\ pc = 0
    /\ call.fn = fn
    /\ ~result.done
    /\ result' = Returned(value)
    /\ UNCHANGED <<RESOURCES, OPPORTUNITIES, pc, app, routes, served, call>>

Call_apply_filters ==
    Executes("apply_filters",
             apply_filters(Dataset(call.items), call.exact_filters,
                           call.search_query, call.search_fields))

Call_tally == Executes("tally", tally(Dataset(call.items), call.key))

View_health == Executes("health", health)

View_list_resources == Executes("list_resources", list_resources(call.args))

View_get_resource == Executes("get_resource", get_resource(call.resource_id))

View_list_opportunities == Executes("list_opportunities", list_opportunities(call.args))

View_get_opportunity == Executes("get_opportunity", get_opportunity(call.opportunity_id))

View_list_counties == Executes("list_counties", list_counties)

View_stats == Executes("stats", stats)

Return ==
    /\ pc = 0
    /\ result.done
    /\ call' = NoCall
    /\ result' = Pending
    /\ UNCHANGED <<RESOURCES, OPPORTUNITIES, pc, app, routes, served>>

Next ==
    \/ Invoke
    \/ Call_apply_filters
    \/ Call_tally
    \/ View_health
    \/ View_list_resources
    \/ View_get_resource
    \/ View_list_opportunities
    \/ View_get_opportunity
    \/ View_list_counties
    \/ View_stats
    \/ Return

Spec == Init /\ [][Next]_vars


(***************************************************************************)
(* login                                                                   *)
(***************************************************************************)
DemoEmail == Str(<<"d", "e", "m", "o", "@", "n", "r", "t", "r", ".", "o", "r", "g">>)
AdminEmail == Str(<<"a", "d", "m", "i", "n", "@", "n", "r", "t", "r", ".", "o", "r", "g">>)
DemoPassword == Str(<<"d", "e", "m", "o", "1", "2", "3">>)
AdminPassword == Str(<<"a", "d", "m", "i", "n", "p", "a", "s", "s">>)

USERS == (DemoEmail :> DemoPassword) @@ (AdminEmail :> AdminPassword)

\* a JSON object: a Python dict with the given entries
Dict(entries) == [t |-> "dict", d |-> entries]

\* what Flask answers when a view raises: 500 and an HTML error page
internal_server_error == [status |-> 500, html |-> "Internal Server Error"]

\* data = request.get_json(); data.get raises AttributeError when the JSON body is
\* an array; `email in USERS` raises TypeError when email is unhashable (an array)
login(body) ==
    IF body.t # "dict" THEN internal_server_error
    ELSE LET email == get(body.d, "email")
             password == get(body.d, "password")
         IN  IF email.t = "list" THEN internal_server_error
             ELSE IF email \in DOMAIN USERS /\ PyEq(USERS[email], password)
             THEN jsonify([success |-> TRUE, message |-> "Login successful"], 200)
             ELSE jsonify([success |-> FALSE, message |-> "Invalid credentials"], 401)

(***************************************************************************)
(* create_app, statement by statement; pc is the line of the next statement *)
(***************************************************************************)
\* a URL rule: the path's segments ("*" is a <variable> segment), the methods and
\* the view function the decorator registers
Rule(path, methods, view) == [path |-> path, methods |-> methods, view |-> view]

\* the decorators of create_app, by line
Decorators ==
    (66 :> Rule(<<"api", "health">>, {"GET"}, "health"))
    @@ (70 :> Rule(<<"api", "resources">>, {"GET"}, "list_resources"))
    @@ (89 :> Rule(<<"api", "resources", "*">>, {"GET"}, "get_resource"))
    @@ (96 :> Rule(<<"api", "opportunities">>, {"GET"}, "list_opportunities"))
    @@ (115 :> Rule(<<"api", "opportunities", "*">>, {"GET"}, "get_opportunity"))
    @@ (122 :> Rule(<<"api", "meta", "counties">>, {"GET"}, "list_counties"))
    @@ (127 :> Rule(<<"api", "meta", "stats">>, {"GET"}, "stats"))
    @@ (159 :> Rule(<<"api", "login">>, {"POST"}, "login"))

\* the statements of create_app in order, by line
Statements == <<62, 64, 66, 70, 89, 96, 115, 122, 127, 150, 151, 159, 170, 174>>

following(line) ==
    LET i == CHOOSE j \in 1..Len(Statements) : Statements[j] = line
    IN  Statements[i + 1]

\* the lines at which the process serves requests: app.run inside create_app
\* (line 171) and the module-level app after create_app returned (line 176)
ServingLines == {171, 176}

InitApp ==
    /\ RESOURCES = <<>>
    /\ OPPORTUNITIES = <<>>
    /\ pc = 62
    /\ app = 0
    /\ routes = <<>>
    /\ served = 0
    /\ call = NoCall
    /\ result = Pending

\* line 62: bootstrap_data() loads both files; load_dataset raises FileNotFoundError
\* (line 26) when a file is missing, which ends the start-up
bootstrap_data ==
    /\ pc = 62
    /\ \/ \E d \in FileContents :
             /\ RESOURCES' = d[1]
             /\ OPPORTUNITIES' = d[2]
             /\ pc' = following(62)
       \/ /\ pc' = 26
          /\ UNCHANGED <<RESOURCES, OPPORTUNITIES>>
    /\ UNCHANGED <<app, routes, served, call, result>>

\* lines 64 and 150: app = Flask(__name__) binds app to a new application object
\* with no rules
new_Flask ==
    /\ pc \in {64, 150}
    /\ app' = Len(routes) + 1
    /\ routes' = Append(routes, {})
    /\ pc' = following(pc)
    /\ UNCHANGED <<RESOURCES, OPPORTUNITIES, served, call, result>>

\* @app.get(rule) / @app.route(rule, methods=[...]): registers the view on the
\* object app is bound to at that line
add_url_rule ==
    /\ pc \in DOMAIN Decorators
    /\ routes' = [routes EXCEPT ![app] = @ \cup {Decorators[pc]}]
    /\ pc' = following(pc)
    /\ UNCHANGED <<RESOURCES, OPPORTUNITIES, app, served, call, result>>

\* line 151: CORS(app) adds response headers; no rule changes
enable_CORS ==
    /\ pc = 151
    /\ pc' = following(pc)
    /\ UNCHANGED <<RESOURCES, OPPORTUNITIES, app, routes, served, call, result>>

\* lines 170-171: run as a script, app.run(debug=True) serves app from inside
\* create_app; imported, the statement is skipped
run_if_main ==
    /\ pc = 170
    /\ \/ pc' = 171 /\ served' = app
       \/ pc' = following(pc) /\ UNCHANGED served
    /\ UNCHANGED <<RESOURCES, OPPORTUNITIES, app, routes, call, result>>

\* line 174: return app; line 176 binds the module's app, which is what is served
return_app ==
    /\ pc = 174
    /\ served' = app
    /\ pc' = 176
    /\ UNCHANGED <<RESOURCES, OPPORTUNITIES, app, routes, call, result>>

\* a rule's path matches a request path
path_matches(rule_path, path) ==
    /\ Len(rule_path) = Len(path)
    /\ \A i \in 1..Len(path) : rule_path[i] = "*" \/ rule_path[i] = path[i]

\* what Flask answers when no rule matches, or none for the method
not_found == [status |-> 404, html |-> "Not Found"]
method_not_allowed == [status |-> 405, html |-> "Method Not Allowed"]

\* the view function called with the request's parts
view_result(view, request) ==
    CASE view = "health" -> health
      [] view = "list_resources" -> list_resources(request.args)
      [] view = "get_resource" -> get_resource(Str(request.segment))
      [] view = "list_opportunities" -> list_opportunities(request.args)
      [] view = "get_opportunity" -> get_opportunity(Str(request.segment))
      [] view = "list_counties" -> list_counties
      [] view = "stats" -> stats
      [] view = "login" -> login(request.body)

\* Flask's dispatch of a request on an application object
dispatch_request(application, request) ==
    LET matching == {r \in routes[application] : path_matches(r.path, request.path)}
        allowed == {r \in matching : request.method \in r.methods}
    IN  IF matching = {} THEN not_found
        ELSE IF allowed = {} THEN method_not_allowed
        ELSE view_result((CHOOSE r \in allowed : TRUE).view, request)

(***************************************************************************)
(* Requests                                                                *)
(***************************************************************************)
RequestPaths ==
    { <<"api", "health">>, <<"api", "resources">>, <<"api", "resources", "id">>,
      <<"api", "opportunities">>, <<"api", "opportunities", "id">>,
      <<"api", "meta", "counties">>, <<"api", "meta", "stats">>, <<"api", "login">>,
      <<"api">> }
\* (the third segment of a path stands for the identifier, which the request
\* carries, as a string, in its field segment)

EmailValues ==
    {DemoEmail, AdminEmail, Str(<<"x", "@", "y">>), None, Num(1), List}
PasswordValues ==
    {DemoPassword, AdminPassword, Str(<<"D", "E", "M", "O", "1", "2", "3">>), None, List}

\* JSON bodies: an object with email and password each given or not, or an array
Bodies ==
    {Dict(m) : m \in {f \in PartialMaps({"email", "password"},
                                         EmailValues \cup PasswordValues) :
                        /\ "email" \in DOMAIN f => f["email"] \in EmailValues
                        /\ "password" \in DOMAIN f => f["password"] \in PasswordValues}}
    \cup {List}

Requests ==
    {[fn |-> "request", method |-> "POST", path |-> <<"api", "login">>,
      segment |-> <<>>, args |-> <<>>, body |-> b] : b \in Bodies}
    \cup {[fn |-> "request", method |-> m, path |-> p,
           segment |-> IF Len(p) = 3 THEN i.s ELSE <<>>, args |-> a, body |-> Dict(<<>>)] :
            m \in {"GET", "POST"}, p \in RequestPaths, i \in {Str(<<"r", "1">>), Str(<<"s", "2">>)},
            a \in {<<>>, [limit |-> Str(<<"1">>)]}}

receive ==
    /\ pc \in ServingLines
    /\ call = NoCall
    /\ \E r \in Requests : call' = r
    /\ result' = Pending
    /\ UNCHANGED <<RESOURCES, OPPORTUNITIES, pc, app, routes, served>>

handle ==
    /\ pc \in ServingLines
    /\ call.fn = "request"
    /\ ~result.done
    /\ result' = Returned(dispatch_request(served, call))
    /\ UNCHANGED <<RESOURCES, OPPORTUNITIES, pc, app, routes, served, call>>

respond ==
    /\ pc \in ServingLines
    /\ result.done
    /\ call' = NoCall
    /\ result' = Pending
    /\ UNCHANGED <<RESOURCES, OPPORTUNITIES, pc, app, routes, served>>

NextApp ==
    \/ bootstrap_data
    \/ new_Flask
    \/ add_url_rule
    \/ enable_CORS
    \/ run_if_main
    \/ return_app
    \/ receive
    \/ handle
    \/ respond

SpecApp == InitApp /\ [][NextApp]_vars

(***************************************************************************)
(* Properties of apply_filters                                             *)
(***************************************************************************)
\* the arguments and the value of a completed direct call of apply_filters
Filtered == call.fn = "apply_filters" /\ result.done
FilterItems == Dataset(call.items)

\* a is obtained from b by deleting elements
RECURSIVE IsSubsequence(_, _)
IsSubsequence(a, b) ==
    IF a = <<>> THEN TRUE
    ELSE IF b = <<>> THEN FALSE
    ELSE IF Head(a) = Head(b) THEN IsSubsequence(Tail(a), Tail(b))
    ELSE IsSubsequence(a, Tail(b))

Occurrences(seq, x) == Cardinality({i \in 1..Len(seq) : seq[i] = x})

\* C1: the output of apply_filters is a subsequence of its input: only records of
\* the input, each at most as often as in the input, in the input's relative order.
C1_OutputIsSubsequence ==
    Filtered =>
        /\ IsSubsequence(result.value, FilterItems)
        /\ \A k \in 1..Len(result.value) :
              /\ \E i \in 1..Len(FilterItems) : FilterItems[i] = result.value[k]
              /\ Occurrences(result.value, result.value[k])
                    <= Occurrences(FilterItems, result.value[k])

\* two different records were both kept by a filter that constrains something
C1_Witness ==
    /\ Filtered
    /\ Len(result.value) = 2
    /\ result.value[1] # result.value[2]
    /\ DOMAIN cleaned_filters(call.exact_filters) # {}

\* C2: apply_filters is idempotent: filtering its own output again with the same
\* criteria returns that output unchanged.
C2_Idempotent ==
    Filtered =>
        apply_filters(result.value, call.exact_filters, call.search_query,
                      call.search_fields) = result.value

\* a filter that kept one record and dropped another
C2_Witness ==
    /\ Filtered
    /\ Len(result.value) = 1
    /\ Len(FilterItems) = 2

\* two characters that are the same letter in either case, or the same character
SameIgnoringCase(c, d) ==
    \/ c = d
    \/ c \in DOMAIN UpperToLower /\ UpperToLower[c] = d
    \/ d \in DOMAIN UpperToLower /\ UpperToLower[d] = c

EqualIgnoringCase(s, e) ==
    /\ Len(s) = Len(e)
    /\ \A i \in 1..Len(s) : SameIgnoringCase(s[i], e[i])

\* the record has a string for field f that equals e up to letter case
PassesExact(item, f, e) ==
    /\ f \in DOMAIN item
    /\ item[f].t = "str"
    /\ EqualIgnoringCase(item[f].s, e.s)

NonEmptyFilters(exact_filters) ==
    {f \in DOMAIN exact_filters : exact_filters[f] \notin {None, Str(<<>>)}}

\* C4: of the records that pass the text constraint, exactly those pass whose value
\* for every non-empty exact filter field is present, non-null and equal to the
\* expected value ignoring letter case.
C4_ExactFiltersIgnoreCase ==
    Filtered =>
        result.value =
            SelectSeq(apply_filters(FilterItems, <<>>, call.search_query, call.search_fields),
                      LAMBDA item : \A f \in NonEmptyFilters(call.exact_filters) :
                                        PassesExact(item, f, call.exact_filters[f]))

\* a record whose county differs in case from the expected value was kept, and a
\* record whose county is null, missing or no string was dropped
C4_Witness ==
    /\ Filtered
    /\ "county" \in NonEmptyFilters(call.exact_filters)
    /\ \E k \in 1..Len(result.value) :
          result.value[k]["county"] # call.exact_filters["county"]
    /\ \E i \in 1..Len(FilterItems) :
          /\ get(FilterItems[i], "county").t # "str"
          /\ \A k \in 1..Len(result.value) : result.value[k] # FilterItems[i]

\* exact_filters without the entry for f
Omit(exact_filters, f) == [k \in DOMAIN exact_filters \ {f} |-> exact_filters[k]]

\* C5: a filter field whose expected value is the empty string or None gives the
\* same output as leaving the field out; with every exact filter empty and no search
\* query the whole input is returned.
C5_EmptyFilterIsNoFilter ==
    Filtered =>
        /\ \A f \in DOMAIN call.exact_filters :
              call.exact_filters[f] \in {None, Str(<<>>)} =>
                  result.value = apply_filters(FilterItems, Omit(call.exact_filters, f),
                                               call.search_query, call.search_fields)
        /\ (NonEmptyFilters(call.exact_filters) = {}
              /\ call.search_query \in {None, Str(<<>>)}) => result.value = FilterItems

\* an empty county filter was given beside a type filter that kept a record
C5_Witness ==
    /\ Filtered
    /\ "county" \in DOMAIN call.exact_filters
    /\ call.exact_filters["county"] = Str(<<>>)
    /\ "type" \in NonEmptyFilters(call.exact_filters)
    /\ result.value # <<>>

\* the string form of a listed field, the empty string when the record lacks it
FieldText(item, f) == IF f \in DOMAIN item THEN str(item[f]) ELSE <<>>

RECURSIVE SingleSpaceJoined(_, _)
SingleSpaceJoined(item, fields) ==
    IF fields = <<>> THEN <<>>
    ELSE IF Len(fields) = 1 THEN FieldText(item, fields[1])
    ELSE FieldText(item, fields[1]) \o <<" ">> \o SingleSpaceJoined(item, Tail(fields))

IsSubstring(q, h) ==
    \E start \in 1..(Len(h) + 1) :
        \A j \in 1..Len(q) : start + j - 1 <= Len(h) /\ h[start + j - 1] = q[j]

FieldSet(fields) == {fields[i] : i \in 1..Len(fields)}

\* the lower-cased query occurs in a field outside search_fields and in none of the
\* listed fields' own string forms
OccursOnlyInUnlistedField(item, query, fields) ==
    /\ \E f \in DOMAIN item \ FieldSet(fields) :
          IsSubstring(lower(query), lower(str(item[f])))
    /\ \A f \in FieldSet(fields) : ~IsSubstring(lower(query), lower(FieldText(item, f)))

Kept(item) == \E k \in 1..Len(result.value) : result.value[k] = item

\* C6 as stated: a record passes the text constraint iff the lower-cased query is a
\* substring of the lower-cased single-space join of the listed fields, and a record
\* in which the query occurs only in a field outside search_fields is never matched.
C6_AsStated ==
    (Filtered /\ call.search_query \notin {None, Str(<<>>)}) =>
        /\ result.value =
              SelectSeq(apply_filters(FilterItems, call.exact_filters, None, <<>>),
                        LAMBDA item :
                            IsSubstring(lower(call.search_query.s),
                                        lower(SingleSpaceJoined(item, call.search_fields))))
        /\ \A i \in 1..Len(FilterItems) :
              OccursOnlyInUnlistedField(FilterItems[i], call.search_query.s,
                                        call.search_fields)
                  => ~Kept(FilterItems[i])

\* C6 amended: the substring rule as stated; a record in which the query occurs only
\* in a field outside search_fields is matched only when the query contains a space
\* (its occurrence in the joined string then runs across a separator), and never
\* when the joined string of the listed fields does not contain the query.
C6_TextSearch ==
    (Filtered /\ call.search_query \notin {None, Str(<<>>)}) =>
        /\ result.value =
              SelectSeq(apply_filters(FilterItems, call.exact_filters, None, <<>>),
                        LAMBDA item :
                            IsSubstring(lower(call.search_query.s),
                                        lower(SingleSpaceJoined(item, call.search_fields))))
        /\ \A i \in 1..Len(FilterItems) :
              (OccursOnlyInUnlistedField(FilterItems[i], call.search_query.s,
                                         call.search_fields)
                 /\ Kept(FilterItems[i]))
                  => \E j \in 1..Len(call.search_query.s) : call.search_query.s[j] = " "

\* a query holding a space matched a record through two listed fields joined by the
\* separator although it occurs whole only in the record's id, and the other record
\* was dropped
C6_Witness ==
    /\ Filtered
    /\ call.search_query \notin {None, Str(<<>>)}
    /\ call.search_fields = ResourceSearchFields
    /\ Len(FilterItems) = 2
    /\ Len(result.value) = 1
    /\ OccursOnlyInUnlistedField(result.value[1], call.search_query.s, call.search_fields)


(***************************************************************************)
(* Properties of the lookup and list view functions and of tally           *)
(***************************************************************************)
\* the indices of the records whose id is the string looked up
IdHits(dataset, wanted) ==
    {i \in 1..Len(dataset) :
        /\ "id" \in DOMAIN dataset[i]
        /\ dataset[i]["id"].t = "str"
        /\ dataset[i]["id"].s = wanted.s}

Least(indices) == CHOOSE i \in indices : \A j \in indices : i <= j

FirstWithIdOr404(dataset, wanted, message) ==
    IF IdHits(dataset, wanted) = {}
    THEN /\ result.value.status = 404
         /\ result.value.json = [error |-> message]
    ELSE /\ result.value.status = 200
         /\ result.value.json = dataset[Least(IdHits(dataset, wanted))]

Take(seq, k) == [i \in 1..(IF k < Len(seq) THEN k ELSE Len(seq)) |-> seq[i]]

\* the filtered sequence F of a list call, before the limit is applied
ListFiltered ==
    IF call.fn = "list_resources"
    THEN apply_filters(RESOURCES,
                       [county |-> get(call.args, "county"), type |-> get(call.args, "type")],
                       get(call.args, "q"), ResourceSearchFields)
    ELSE apply_filters(OPPORTUNITIES,
                       [county |-> get(call.args, "county"),
                        category |-> get(call.args, "category")],
                       get(call.args, "q"), OpportunitySearchFields)

ListCompleted == call.fn \in {"list_resources", "list_opportunities"} /\ result.done

C8_WitnessNegative ==
    /\ ListCompleted
    /\ args_get_int(call.args, "limit") = Num(-1)
    /\ ListFiltered # <<>>
    /\ result.value.json.count = 0

NonFalsy(v) == v \notin {None, Str(<<>>), Num(0)}

\* the indices of the records that bear a non-falsy value for key
Bearing(items, key) ==
    {i \in 1..Len(items) : key \in DOMAIN items[i] /\ NonFalsy(items[i][key])}

RECURSIVE SumOfCounts(_)
SumOfCounts(counts) ==
    IF DOMAIN counts = {} THEN 0
    ELSE LET v == CHOOSE x \in DOMAIN counts : TRUE
         IN  counts[v] + SumOfCounts([x \in DOMAIN counts \ {v} |-> counts[x]])

Tallied == call.fn = "tally" /\ result.done

\* C9: tally maps each non-falsy value of key to the number of records bearing it;
\* records with a missing or falsy value count nowhere, no count is zero, and the
\* counts sum to the number of records with a non-falsy value for key.
C9_TallyCounts ==
    Tallied =>
        LET items == Dataset(call.items)
            bearing == Bearing(items, call.key)
            counts == result.value
        IN  /\ DOMAIN counts = {items[i][call.key] : i \in bearing}
            /\ \A v \in DOMAIN counts :
                  /\ counts[v] = Cardinality({i \in bearing : items[i][call.key] = v})
                  /\ counts[v] > 0
            /\ SumOfCounts(counts) = Cardinality(bearing)

\* one record has an empty or null value for the key and another is counted
C9_Witness ==
    /\ Tallied
    /\ Len(Dataset(call.items)) = 2
    /\ Cardinality(Bearing(Dataset(call.items), call.key)) = 1
    /\ \E i \in 1..2 :
          /\ call.key \in DOMAIN Dataset(call.items)[i]
          /\ ~NonFalsy(Dataset(call.items)[i][call.key])
    /\ DOMAIN result.value # {}


(***************************************************************************)
(* Properties of the served application                                    *)
(***************************************************************************)
\* the documented HTTP surface: method and path, "id" standing for an identifier
DocumentedRoutes ==
    { [method |-> "GET", path |-> <<"api", "health">>],
      [method |-> "GET", path |-> <<"api", "resources">>],
      [method |-> "GET", path |-> <<"api", "resources", "id">>],
      [method |-> "GET", path |-> <<"api", "opportunities">>],
      [method |-> "GET", path |-> <<"api", "opportunities", "id">>],
      [method |-> "GET", path |-> <<"api", "meta", "counties">>],
      [method |-> "GET", path |-> <<"api", "meta", "stats">>],
      [method |-> "POST", path |-> <<"api", "login">>] }

\* the application object has a rule for the documented route
Registered(application, d) ==
    \E r \in routes[application] :
        /\ d.method \in r.methods
        /\ Len(r.path) = Len(d.path)
        /\ \A i \in 1..Len(d.path) : r.path[i] = d.path[i] \/ r.path[i] = "*"

\* C3: the application object that is served answers every documented route, and no
\* documented route is registered on another application object.
C3_ServedAppAnswersEveryRoute ==
    pc \in ServingLines =>
        /\ \A d \in DocumentedRoutes : Registered(served, d)
        /\ \A a \in (1..Len(routes)) \ {served} :
              \A d \in DocumentedRoutes : ~Registered(a, d)
        /\ (call.fn = "request" /\ result.done
              /\ [method |-> call.method, path |-> call.path] \in DocumentedRoutes)
              => result.value.status \notin {404, 405}

\* the e-mail and password pairs of the static user mapping
Credentials == {<<DemoEmail, DemoPassword>>, <<AdminEmail, AdminPassword>>}

LoginAnswered ==
    /\ pc \in ServingLines
    /\ call.fn = "request"
    /\ call.method = "POST"
    /\ call.path = <<"api", "login">>
    /\ result.done

SubmittedPair ==
    IF call.body.t = "dict"
    THEN <<get(call.body.d, "email"), get(call.body.d, "password")>>
    ELSE <<None, None>>

\* C10: POST /api/login answers 200 with success:true iff the submitted e-mail is a
\* key of the user mapping and the password is that key's secret; every other
\* submission answers 401 with success:false and the one generic message.
C10_LoginAnswers200Or401 ==
    LoginAnswered =>
        IF SubmittedPair \in Credentials
        THEN /\ result.value.status = 200
             /\ result.value.json.success = TRUE
        ELSE /\ result.value.status = 401
             /\ result.value.json = [success |-> FALSE, message |-> "Invalid credentials"]

\* the same, for the submissions whose body is a JSON object and whose e-mail is a
\* string, a number, null or absent: these are answered as C10 says
C10_HoldsForHashableEmail ==
    (LoginAnswered /\ call.body.t = "dict" /\ get(call.body.d, "email").t # "list") =>
        IF SubmittedPair \in Credentials
        THEN /\ result.value.status = 200
             /\ result.value.json.success = TRUE
        ELSE /\ result.value.status = 401
             /\ result.value.json = [success |-> FALSE, message |-> "Invalid credentials"]

====
